---- MODULE Spec2Model ----
(***************************************************************************)
(* Order / inventory consistency of frappuccino.                           *)
(*                                                                         *)
(* The committed database (inventory, orders with their items, the         *)
(* inventory_transactions ledger, order_status_history, the orders id      *)
(* sequence) is shared by request workers.  Every repository method runs   *)
(* in one database/sql transaction at PostgreSQL's default isolation       *)
(* (READ COMMITTED, BeginTx(ctx, nil)): a statement reads the rows         *)
(* committed when it starts plus the transaction's own writes, an UPDATE,  *)
(* DELETE or SELECT ... FOR UPDATE waits for the row lock of a concurrent  *)
(* writer and then works on the row's latest committed version, and all    *)
(* writes become visible together at Commit.  One action is one SQL        *)
(* statement (or a run of statements that touch only the transaction's     *)
(* private state).  Quantities are DECIMAL(10,3), kept as thousandths.     *)
(***************************************************************************)
EXTENDS Integers, Sequences, FiniteSets, TLC

\* ---------------------------------------------------------------- bounds
\* requests served in one run
MaxRequests == 4

\* ------------------------------------------------------- schema and data
Scale == 1000

Workers == {1, 2}

Beans == 1
Milk == 2
Ingredients == {Beans, Milk}

OrderStatus == {"pending", "accepted", "preparing", "ready", "delivered", "cancelled"}

TransactionType == {"order_usage", "order_deletion", "adjustment"}

\* menu_items as seeded: id -> price in cents (every seeded item of the model is active)
MenuPrice == (1 :> 250) @@ (2 :> 375) @@ (3 :> 100)

MenuIds == DOMAIN MenuPrice

\* menu_item_ingredients: menu item -> (ingredient -> quantity per unit)
Recipe == (1 :> (Beans :> 1000)) @@ (2 :> ((Beans :> 1000) @@ (Milk :> 1000))) @@ (3 :> (Milk :> 500))

RecipeOf(m) == IF m \in DOMAIN Recipe THEN Recipe[m] ELSE << >>

InitialStock == (Beans :> 2 * Scale) @@ (Milk :> 1 * Scale)

\* ------------------------------------------------------- request inputs
Item(m, n) == [menu |-> m, qty |-> n]

\* the item lists a request may carry: none, one line, one line of two units, two
\* lines on the same ingredient, a two-ingredient recipe, a fractional recipe
OrderInputs == {<< >>, <<Item(1, 1)>>, <<Item(1, 2)>>, <<Item(1, 1), Item(1, 1)>>, <<Item(2, 1)>>, <<Item(3, 1)>>, <<Item(1, 1), Item(3, 1)>>}

\* the item lists and statuses of the requests that run two at a time
ConcurrentOrderInputs == {<<Item(1, 2)>>, <<Item(1, 1), Item(1, 1)>>}

ConcurrentStatusInputs == {"pending", "cancelled"}

\* one candidate order of a batch: its items and the total_price the client sent
Cand(items, total) == [items |-> items, total |-> total]

\* the candidates a batch may carry: no items, a client total of 0, one unit, two
\* units, a two-ingredient recipe, a menu item that does not exist
BatchCandidates == {Cand(<< >>, 500), Cand(<<Item(1, 1)>>, 0), Cand(<<Item(1, 1)>>, 500), Cand(<<Item(1, 2)>>, 500), Cand(<<Item(2, 1)>>, 500), Cand(<<Item(9, 1)>>, 500)}

\* the batches of at most n candidates
BatchesUpTo(n) == UNION {[1..m -> BatchCandidates] : m \in 0..n}

ClientTotals == {0, 500}

StatusInputs == {"", "pending", "ready", "cancelled"}

OrderIdInputs == 0..2

\* the requests that run while menu prices change: no items, one unit, two units, a
\* menu item that does not exist; a create request without and with a status
PricingOrderInputs == {<< >>, <<Item(1, 1)>>, <<Item(1, 2)>>, <<Item(9, 1)>>}

CreateStatusInputs == {"", "delivered"}

PricingStatusInputs == {"pending"}

\* the menu item an UpdateMenuItem request edits and the prices it may set
PricingMenuIds == {1}

PriceInputs == {250, 300}

\* ---------------------------------------------------------------- state
VARIABLES inventory, orders, ledger, history, nextId, tx, requests, lastCreate, menu_items

vars == <<inventory, orders, ledger, history, nextId, tx, requests, lastCreate, menu_items>>

\* orders maps an id to [status, total, items, priced]: the row's status and
\* total_price, its order_items, and (a history field) the menu prices the
\* total_price was computed from; menu_items maps an id to [price, is_active]
committed == <<inventory, orders, ledger, history>>

\* history variable: the order the latest commit created, the stock just before that
\* commit, and the status and total_price its request carried (NoCreate when the
\* latest commit was not a CreateOrder)
NoCreate == [id |-> 0, stock |-> InitialStock, status |-> "", ct |-> 0]

NoDeltas == [g \in Ingredients |-> 0]

\* the state of one BatchProcessOrders call: the candidates, the loop position k, the
\* response under construction (processed, accepted, rejected, revenue, totalOrders,
\* inventoryUsed), actualInventoryUsed, and whether the request context is cancelled;
\* start (the stock when the loop began) and stockAt (the stock when each candidate's
\* turn came) are history fields
NoBatch == [on |-> FALSE, cands |-> << >>, k |-> 0, processed |-> << >>, accepted |-> 0, rejected |-> 0, revenue |-> 0, totalOrders |-> 0, actualInventoryUsed |-> << >>, inventoryUsed |-> << >>, cancelled |-> FALSE, start |-> InitialStock, stockAt |-> << >>]

IdleTx == [op |-> "none", pc |-> "done", out |-> "none", id |-> 0, items |-> << >>, status |-> "", ct |-> 0, total |-> 0, priced |-> << >>, i |-> 0, cur |-> << >>, deltas |-> NoDeltas, applied |-> {}, wInv |-> << >>, wLedger |-> << >>, ordLock |-> {}, itemLock |-> {}, batch |-> NoBatch]

\* the method has returned `outcome`; the handler has not yet written the response
Finished(t, outcome) == [IdleTx EXCEPT !.op = t.op, !.id = t.id, !.out = outcome, !.batch = t.batch]

Idle(w) == tx[w].op = "none"

Active(w) == tx[w].op # "none" /\ tx[w].pc # "done"

\* ----------------------------------------------------- row locks, reads
InvLockedByOther(w, g) == \E v \in Workers \ {w} : g \in DOMAIN tx[v].wInv

OrderLockedByOther(w, id) == \E v \in Workers \ {w} : id \in tx[v].ordLock

ItemsLockedByOther(w, id) == \E v \in Workers \ {w} : id \in tx[v].itemLock

\* the quantity a statement of w's transaction sees in inventory row g
Visible(w, g) == IF g \in DOMAIN tx[w].wInv THEN tx[w].wInv[g] ELSE inventory[g]

\* inventory as it is once w's transaction commits
MergedInventory(w) == [g \in Ingredients |-> Visible(w, g)]

\* ------------------------------------------------------ pure helpers
\* a total taken from the prices the menu was seeded with
RECURSIVE calculateOrderTotalSeedPrices(_)
calculateOrderTotalSeedPrices(items) == IF items = << >> THEN 0 ELSE MenuPrice[Head(items).menu] * Head(items).qty + calculateOrderTotalSeedPrices(Tail(items))

\* a total that grows with every request served
RECURSIVE calculateOrderTotalDrifting(_)
calculateOrderTotalDrifting(items) == IF items = << >> THEN requests ELSE menu_items[Head(items).menu].price * Head(items).qty + calculateOrderTotalDrifting(Tail(items))

RECURSIVE calculateOrderTotal(_)
calculateOrderTotal(items) == IF items = << >> THEN 0 ELSE menu_items[Head(items).menu].price * Head(items).qty + calculateOrderTotal(Tail(items))

\* history function: the prices a total was computed from
Prices == [m \in DOMAIN menu_items |-> menu_items[m].price]

\* SELECT price FROM menu_items WHERE id = $1 finds a row for every item
PricesResolve(items) == \A k \in 1..Len(items) : items[k].menu \in DOMAIN menu_items

\* int(quantityPerUnit * float64(quantity)): the product cut to whole units
Truncate(x) == IF x >= 0 THEN x \div Scale ELSE -((-x) \div Scale)

\* ing.quantity * $2 for one order item and one ingredient (0 when the recipe has no such row)
ItemUsage(item, g) == IF g \in DOMAIN RecipeOf(item.menu) THEN RecipeOf(item.menu)[g] * item.qty ELSE 0

\* a deduction that forgets the line's quantity
DeductedQuantityPerLine(item, g) == IF g \in DOMAIN RecipeOf(item.menu) THEN RecipeOf(item.menu)[g] ELSE 0

\* SET quantity = i.quantity - (ing.quantity * $2)
DeductedQuantity(item, g) == ItemUsage(item, g)

\* a restock cut to whole units, as UpdateOrder cuts its deltas
RestoredQuantityTruncated(item, g) == Truncate(ItemUsage(item, g)) * Scale

\* SET quantity = i.quantity + (ing.quantity * $2)
RestoredQuantity(item, g) == ItemUsage(item, g)

RECURSIVE SetToSeq(_)
SetToSeq(S) == IF S = {} THEN << >> ELSE LET m == CHOOSE x \in S : \A y \in S : x <= y IN <<m>> \o SetToSeq(S \ {m})

\* ledger rows that record the recipe quantity of one unit, whatever the line's quantity
ItemRowsPerUnit(item, sign, kind, ref) == LET gs == SetToSeq(DOMAIN RecipeOf(item.menu)) IN [k \in 1..Len(gs) |-> [ing |-> gs[k], delta |-> sign * RecipeOf(item.menu)[gs[k]], kind |-> kind, ref |-> ref]]

\* the ledger rows one INSERT ... SELECT FROM ingredients writes for one item
ItemRows(item, sign, kind, ref) == LET gs == SetToSeq(DOMAIN RecipeOf(item.menu)) IN [k \in 1..Len(gs) |-> [ing |-> gs[k], delta |-> sign * ItemUsage(item, gs[k]), kind |-> kind, ref |-> ref]]

RECURSIVE OrderRows(_, _, _, _)
OrderRows(items, sign, kind, ref) == IF items = << >> THEN << >> ELSE ItemRows(Head(items), sign, kind, ref) \o OrderRows(Tail(items), sign, kind, ref)

RECURSIVE TruncatedUsage(_, _)
TruncatedUsage(items, g) == IF items = << >> THEN 0 ELSE Truncate(ItemUsage(Head(items), g)) + TruncatedUsage(Tail(items), g)

\* deltas that add the new quantities and forget to subtract the old ones
inventoryDeltasNewOnly(cur, new) == [g \in Ingredients |-> TruncatedUsage(new, g)]

\* 2. inventoryDeltas: old quantities subtracted, new quantities added, in whole units
inventoryDeltas(cur, new) == [g \in Ingredients |-> TruncatedUsage(new, g) - TruncatedUsage(cur, g)]

\* the transaction_type UpdateOrder writes
UpdateLedgerKind == "order_update"

\* the order_items rows of an order as a statement reads them (none if there is no such order)
ItemsOf(id) == IF id \in DOMAIN orders THEN orders[id].items ELSE << >>

\* ---------------------------------------------------------------- Init
Init ==
    /\ inventory = InitialStock
    /\ orders = << >>
    /\ ledger = << >>
    /\ history = << >>
    /\ nextId = 1
    /\ tx = [w \in Workers |-> IdleTx]
    /\ requests = 0
    /\ lastCreate = NoCreate
    /\ menu_items = [m \in MenuIds |-> [price |-> MenuPrice[m], is_active |-> TRUE]]

\* ---------------------------------------------------- failure / cancel
\* defer tx.Rollback(): an error return, or a cancelled request context, drops
\* every write of the transaction and releases its locks
Rollback(w, outcome) == tx' = [tx EXCEPT ![w] = Finished(tx[w], outcome)]

\* a cancellation whose inventory writes were not made through the transaction
AbortKeepingStock(w) ==
    /\ Active(w)
    /\ Rollback(w, "cancelled")
    /\ inventory' = MergedInventory(w)
    /\ UNCHANGED <<orders, ledger, history, nextId, requests, lastCreate, menu_items>>

Abort(w) ==
    /\ Active(w)
    /\ Rollback(w, IF tx[w].pc = "commit" THEN "cancelled before commit" ELSE "cancelled")
    /\ UNCHANGED <<inventory, orders, ledger, history, nextId, requests, lastCreate, menu_items>>

\* ------------------------------------------------------------ deadlock
\* the statement w's transaction is at needs the row lock of its order: UPDATE orders,
\* DELETE FROM orders, SELECT status ... FOR UPDATE
WaitsForOrder(w) ==
    /\ tx[w].id \in DOMAIN orders
    /\ \/ tx[w].op = "update" /\ tx[w].pc = "meta" /\ tx[w].status \in OrderStatus
       \/ tx[w].op = "delete" /\ tx[w].pc = "order"
       \/ tx[w].op = "close" /\ tx[w].pc = "select"

\* ... the row locks of its order's items: DELETE FROM order_items
WaitsForItems(w) ==
    \/ tx[w].op = "update" /\ tx[w].pc = "items"
    \/ tx[w].op = "delete" /\ tx[w].pc = "items"

\* ... the inventory rows its UPDATE inventory or SELECT ... FOR UPDATE may be at
WaitsForInventory(w) ==
    IF tx[w].op = "create" /\ tx[w].pc = "deduct" THEN DOMAIN RecipeOf(tx[w].items[tx[w].i].menu)
    ELSE IF tx[w].op = "delete" /\ tx[w].pc = "restore" THEN DOMAIN RecipeOf(tx[w].cur[tx[w].i].menu)
    ELSE IF tx[w].op = "update" /\ tx[w].pc = "verify" THEN {g \in Ingredients : tx[w].deltas[g] > 0 /\ g \notin DOMAIN tx[w].wInv}
    ELSE IF tx[w].op = "update" /\ tx[w].pc = "apply" THEN {g \in Ingredients : tx[w].deltas[g] # 0 /\ g \notin tx[w].applied}
    ELSE {}

\* w's statement waits for a row lock that v's transaction holds
BlockedBy(w, v) ==
    \/ WaitsForOrder(w) /\ tx[w].id \in tx[v].ordLock
    \/ WaitsForItems(w) /\ tx[w].id \in tx[v].itemLock
    \/ \E g \in WaitsForInventory(w) : g \in DOMAIN tx[v].wInv

\* two transactions wait for each other: PostgreSQL fails the statement of one of
\* them ("deadlock detected"), the method returns the error and rolls back
DeadlockVictim(w) ==
    /\ Active(w)
    /\ \E v \in Workers \ {w} : BlockedBy(w, v) /\ BlockedBy(v, w)
    /\ Rollback(w, "deadlock detected")
    /\ UNCHANGED <<inventory, orders, ledger, history, nextId, requests, lastCreate, menu_items>>

\* ------------------------------------------------------- UpdateMenuItem
\* menuService.UpdateMenuItem (the price must be positive), then UPDATE menu_items
\* SET ... price = $3 ... is_active = $5 WHERE id = $6 and Commit; the request
\* carries the item's recipe as it is
UpdateMenuItem ==
    /\ requests < MaxRequests
    /\ requests' = requests + 1
    /\ \E m \in PricingMenuIds, price \in PriceInputs, active \in BOOLEAN :
          /\ price > 0
          /\ m \in DOMAIN menu_items
          /\ menu_items' = [menu_items EXCEPT ![m] = [price |-> price, is_active |-> active]]
    /\ UNCHANGED <<inventory, orders, ledger, history, nextId, tx, lastCreate>>

\* ---------------------------------------------------------- CreateOrder
\* a check of the order's items that lets every order through
EmptyOrderNever(items) == FALSE

\* if len(order.Items) == 0 { return ErrEmptyOrder }
EmptyOrder(items) == Len(items) = 0

\* a new row that takes the status of the request
CreatedStatusOfRequest(st) == st

\* INSERT INTO orders (customer_id, payment_method, total_price, special_instructions):
\* the statement names no status, the row gets the column default
CreatedStatus(st) == "pending"

\* orderService.CreateOrder (an absent status becomes "pending"), then BeginTx
StartCreate(w, Orders, Statuses) ==
    /\ Idle(w)
    /\ requests < MaxRequests
    /\ requests' = requests + 1
    /\ \E items \in Orders, ct \in ClientTotals, st \in Statuses :
          tx' = [tx EXCEPT ![w] =
                   IF EmptyOrder(items) THEN [IdleTx EXCEPT !.op = "create", !.out = "ErrEmptyOrder"]
                   ELSE IF ct <= 0 THEN [IdleTx EXCEPT !.op = "create", !.out = "ErrInvalidTotalPrice"]
                   ELSE [IdleTx EXCEPT !.op = "create", !.pc = "check", !.items = items, !.i = 1, !.ct = ct,
                                       !.status = IF st = "" THEN "pending" ELSE st]]
    /\ UNCHANGED <<inventory, orders, ledger, history, nextId, lastCreate, menu_items>>

\* 1. availability: QueryRow scans the first row of the join only; the query has
\* no ORDER BY, so which recipe row comes first is not determined
CreateCheck(w) ==
    /\ tx[w].op = "create" /\ tx[w].pc = "check"
    /\ LET item == tx[w].items[tx[w].i]
           rows == DOMAIN RecipeOf(item.menu)
       IN IF rows = {} THEN Rollback(w, "insufficient")
          ELSE \E g \in rows :
                 IF inventory[g] >= RecipeOf(item.menu)[g] * item.qty
                 THEN tx' = [tx EXCEPT ![w].pc = IF tx[w].i = Len(tx[w].items) THEN "insert" ELSE "check",
                                       ![w].i = IF tx[w].i = Len(tx[w].items) THEN 1 ELSE tx[w].i + 1]
                 ELSE Rollback(w, "insufficient")
    /\ UNCHANGED <<inventory, orders, ledger, history, nextId, requests, lastCreate, menu_items>>

\* calculateOrderTotal, 2. INSERT INTO orders RETURNING id, 3. INSERT INTO order_items
CreateInsert(w) ==
    /\ tx[w].op = "create" /\ tx[w].pc = "insert"
    /\ IF ~PricesResolve(tx[w].items)
       THEN Rollback(w, "error") /\ UNCHANGED nextId
       ELSE /\ nextId' = nextId + 1
            /\ IF \A k \in 1..Len(tx[w].items) : tx[w].items[k].qty > 0
               THEN tx' = [tx EXCEPT ![w].pc = "deduct", ![w].id = nextId, ![w].i = 1,
                                     ![w].total = calculateOrderTotal(tx[w].items), ![w].priced = Prices]
               ELSE Rollback(w, "error")
    /\ UNCHANGED <<inventory, orders, ledger, history, requests, lastCreate, menu_items>>

\* 4. UPDATE inventory ... FROM ingredients, one statement per order item
CreateDeduct(w) ==
    /\ tx[w].op = "create" /\ tx[w].pc = "deduct"
    /\ LET item == tx[w].items[tx[w].i]
           rows == DOMAIN RecipeOf(item.menu)
       IN /\ \A g \in rows : ~InvLockedByOther(w, g)
          /\ tx' = [tx EXCEPT ![w].wInv = [g \in rows |-> Visible(w, g) - DeductedQuantity(item, g)] @@ tx[w].wInv,
                              ![w].pc = IF tx[w].i = Len(tx[w].items) THEN "commit" ELSE "deduct",
                              ![w].i = IF tx[w].i = Len(tx[w].items) THEN 1 ELSE tx[w].i + 1]
    /\ UNCHANGED <<inventory, orders, ledger, history, nextId, requests, lastCreate, menu_items>>

\* 5. INSERT INTO inventory_transactions ... 'order_usage', then Commit
CreateCommit(w) ==
    /\ tx[w].op = "create" /\ tx[w].pc = "commit"
    /\ inventory' = MergedInventory(w)
    /\ orders' = orders @@ (tx[w].id :> [status |-> CreatedStatus(tx[w].status), total |-> tx[w].total, items |-> tx[w].items, priced |-> tx[w].priced])
    /\ ledger' = ledger \o OrderRows(tx[w].items, -1, "order_usage", tx[w].id)
    /\ tx' = [tx EXCEPT ![w] = Finished(tx[w], "ok")]
    /\ lastCreate' = [id |-> tx[w].id, stock |-> inventory, status |-> tx[w].status, ct |-> tx[w].ct]
    /\ UNCHANGED <<history, nextId, requests, menu_items>>

\* ---------------------------------------------------------- UpdateOrder
\* where UpdateOrder goes on: 3. verify the positive deltas, 4. apply the non-zero
\* deltas, 5. update the order row
UpdatePc(t) ==
    IF \E g \in Ingredients : t.deltas[g] > 0 /\ g \notin DOMAIN t.wInv /\ t.applied = {} /\ t.pc # "apply" THEN "verify"
    ELSE IF \E g \in Ingredients : t.deltas[g] # 0 /\ g \notin t.applied THEN "apply"
    ELSE "meta"

\* orderService.UpdateOrder, BeginTx, calculateOrderTotal
StartUpdate(w, Orders, Statuses) ==
    /\ Idle(w)
    /\ requests < MaxRequests
    /\ requests' = requests + 1
    /\ \E id \in OrderIdInputs, items \in Orders, st \in Statuses, ct \in ClientTotals :
          LET t == [IdleTx EXCEPT !.op = "update", !.id = id]
          IN tx' = [tx EXCEPT ![w] =
                   IF id <= 0 THEN [t EXCEPT !.out = "ErrInvalidOrderID"]
                   ELSE IF EmptyOrder(items) THEN [t EXCEPT !.out = "ErrEmptyOrder"]
                   ELSE IF ct <= 0 THEN [t EXCEPT !.out = "ErrInvalidTotalPrice"]
                   ELSE IF ~PricesResolve(items) THEN [t EXCEPT !.out = "error"]
                   ELSE [t EXCEPT !.pc = "read", !.items = items, !.status = st, !.ct = ct,
                                  !.total = calculateOrderTotal(items), !.priced = Prices]]
    /\ UNCHANGED <<inventory, orders, ledger, history, nextId, lastCreate, menu_items>>

\* 1. SELECT menu_item_id, quantity FROM order_items, 2. the net deltas
UpdateRead(w) ==
    /\ tx[w].op = "update" /\ tx[w].pc = "read"
    /\ LET t == [tx[w] EXCEPT !.cur = ItemsOf(tx[w].id), !.deltas = inventoryDeltas(ItemsOf(tx[w].id), tx[w].items)]
       IN tx' = [tx EXCEPT ![w] = [t EXCEPT !.pc = UpdatePc(t)]]
    /\ UNCHANGED <<inventory, orders, ledger, history, nextId, requests, lastCreate, menu_items>>

\* 3. SELECT quantity FROM inventory WHERE id = $1 FOR UPDATE, for a positive delta;
\* the map is ranged over in no fixed order.  The DECIMAL(10,3) quantity is scanned
\* into `var currentStock int`: what the database driver makes of that is not in this
\* repository, so the Scan either fails or yields the whole units
UpdateVerify(w) ==
    /\ tx[w].op = "update" /\ tx[w].pc = "verify"
    /\ \E g \in Ingredients :
          /\ tx[w].deltas[g] > 0 /\ g \notin DOMAIN tx[w].wInv
          /\ ~InvLockedByOther(w, g)
          /\ \/ Rollback(w, "error")
             \/ IF Truncate(inventory[g]) < tx[w].deltas[g]
                THEN Rollback(w, "insufficient")
                ELSE LET t == [tx[w] EXCEPT !.wInv = (g :> inventory[g]) @@ tx[w].wInv]
                     IN tx' = [tx EXCEPT ![w] = [t EXCEPT !.pc = UpdatePc(t)]]
    /\ UNCHANGED <<inventory, orders, ledger, history, nextId, requests, lastCreate, menu_items>>

\* 4. UPDATE inventory SET quantity = quantity + (-delta), then INSERT INTO
\* inventory_transactions with the transaction_type UpdateOrder writes: a value
\* outside the enum transaction_type fails the statement
UpdateApply(w) ==
    /\ tx[w].op = "update" /\ tx[w].pc = "apply"
    /\ \E g \in Ingredients :
          /\ tx[w].deltas[g] # 0 /\ g \notin tx[w].applied
          /\ ~InvLockedByOther(w, g)
          /\ IF UpdateLedgerKind \notin TransactionType
             THEN Rollback(w, "error")
             ELSE LET t == [tx[w] EXCEPT !.wInv = (g :> Visible(w, g) - tx[w].deltas[g] * Scale) @@ tx[w].wInv,
                                         !.applied = tx[w].applied \cup {g},
                                         !.pc = "apply",
                                         !.wLedger = Append(tx[w].wLedger, [ing |-> g, delta |-> -(tx[w].deltas[g] * Scale), kind |-> UpdateLedgerKind, ref |-> tx[w].id])]
                  IN tx' = [tx EXCEPT ![w] = [t EXCEPT !.pc = UpdatePc(t)]]
    /\ UNCHANGED <<inventory, orders, ledger, history, nextId, requests, lastCreate, menu_items>>

\* 5. UPDATE orders SET customer_id, status, payment_method, total_price ... WHERE id;
\* the status is the request's, cast to the enum order_status
UpdateMeta(w) ==
    /\ tx[w].op = "update" /\ tx[w].pc = "meta"
    /\ IF tx[w].status \notin OrderStatus THEN Rollback(w, "error")
       ELSE IF tx[w].id \notin DOMAIN orders THEN Rollback(w, "ErrNoRows")
       ELSE /\ ~OrderLockedByOther(w, tx[w].id)
            /\ tx' = [tx EXCEPT ![w].ordLock = {tx[w].id}, ![w].pc = "items"]
    /\ UNCHANGED <<inventory, orders, ledger, history, nextId, requests, lastCreate, menu_items>>

\* 6. DELETE FROM order_items WHERE order_id, 7. INSERT INTO order_items
UpdateItems(w) ==
    /\ tx[w].op = "update" /\ tx[w].pc = "items"
    /\ ~ItemsLockedByOther(w, tx[w].id)
    /\ IF \A k \in 1..Len(tx[w].items) : tx[w].items[k].qty > 0
       THEN tx' = [tx EXCEPT ![w].itemLock = {tx[w].id}, ![w].pc = "commit"]
       ELSE Rollback(w, "error")
    /\ UNCHANGED <<inventory, orders, ledger, history, nextId, requests, lastCreate, menu_items>>

UpdateCommit(w) ==
    /\ tx[w].op = "update" /\ tx[w].pc = "commit"
    /\ inventory' = MergedInventory(w)
    /\ orders' = [orders EXCEPT ![tx[w].id] = [status |-> tx[w].status, total |-> tx[w].total, items |-> tx[w].items, priced |-> tx[w].priced]]
    /\ ledger' = ledger \o tx[w].wLedger
    /\ tx' = [tx EXCEPT ![w] = Finished(tx[w], "ok")]
    /\ lastCreate' = NoCreate
    /\ UNCHANGED <<history, nextId, requests, menu_items>>

\* ---------------------------------------------------------- DeleteOrder
\* orderService.DeleteOrder, BeginTx
StartDelete(w) ==
    /\ Idle(w)
    /\ requests < MaxRequests
    /\ requests' = requests + 1
    /\ \E id \in OrderIdInputs :
          LET t == [IdleTx EXCEPT !.op = "delete", !.id = id]
          IN tx' = [tx EXCEPT ![w] = IF id <= 0 THEN [t EXCEPT !.out = "ErrInvalidOrderID"] ELSE [t EXCEPT !.pc = "read"]]
    /\ UNCHANGED <<inventory, orders, ledger, history, nextId, lastCreate, menu_items>>

\* 1. SELECT menu_item_id, quantity FROM order_items WHERE order_id
DeleteRead(w) ==
    /\ tx[w].op = "delete" /\ tx[w].pc = "read"
    /\ tx' = [tx EXCEPT ![w].cur = ItemsOf(tx[w].id), ![w].i = 1,
                        ![w].pc = IF ItemsOf(tx[w].id) = << >> THEN "items" ELSE "restore"]
    /\ UNCHANGED <<inventory, orders, ledger, history, nextId, requests, lastCreate, menu_items>>

\* 2. UPDATE inventory SET quantity = i.quantity + (ing.quantity * $2), per item read
DeleteRestore(w) ==
    /\ tx[w].op = "delete" /\ tx[w].pc = "restore"
    /\ LET item == tx[w].cur[tx[w].i]
           rows == DOMAIN RecipeOf(item.menu)
       IN /\ \A g \in rows : ~InvLockedByOther(w, g)
          /\ tx' = [tx EXCEPT ![w].wInv = [g \in rows |-> Visible(w, g) + RestoredQuantity(item, g)] @@ tx[w].wInv,
                              ![w].pc = IF tx[w].i = Len(tx[w].cur) THEN "items" ELSE "restore",
                              ![w].i = IF tx[w].i = Len(tx[w].cur) THEN 1 ELSE tx[w].i + 1]
    /\ UNCHANGED <<inventory, orders, ledger, history, nextId, requests, lastCreate, menu_items>>

\* 3. INSERT INTO inventory_transactions ... 'order_deletion', 4. DELETE FROM order_items
DeleteItems(w) ==
    /\ tx[w].op = "delete" /\ tx[w].pc = "items"
    /\ ~ItemsLockedByOther(w, tx[w].id)
    /\ tx' = [tx EXCEPT ![w].wLedger = OrderRows(tx[w].cur, 1, "order_deletion", tx[w].id),
                        ![w].itemLock = IF tx[w].id \in DOMAIN orders THEN {tx[w].id} ELSE {},
                        ![w].pc = "order"]
    /\ UNCHANGED <<inventory, orders, ledger, history, nextId, requests, lastCreate, menu_items>>

\* a DELETE FROM orders whose affected-row count is not looked at
DeleteOrderRowUnchecked(w) ==
    /\ tx[w].op = "delete" /\ tx[w].pc = "order"
    /\ ~OrderLockedByOther(w, tx[w].id)
    /\ tx' = [tx EXCEPT ![w].ordLock = {tx[w].id} \cap DOMAIN orders, ![w].pc = "commit"]
    /\ UNCHANGED <<inventory, orders, ledger, history, nextId, requests, lastCreate, menu_items>>

\* 5. DELETE FROM orders WHERE id; no row affected is sql.ErrNoRows
DeleteOrderRow(w) ==
    /\ tx[w].op = "delete" /\ tx[w].pc = "order"
    /\ IF tx[w].id \notin DOMAIN orders THEN Rollback(w, "ErrNoRows")
       ELSE /\ ~OrderLockedByOther(w, tx[w].id)
            /\ tx' = [tx EXCEPT ![w].ordLock = {tx[w].id}, ![w].pc = "commit"]
    /\ UNCHANGED <<inventory, orders, ledger, history, nextId, requests, lastCreate, menu_items>>

\* a delete that takes the order's inventory_transactions rows with it
DeleteCommitPurging(w) ==
    /\ tx[w].op = "delete" /\ tx[w].pc = "commit"
    /\ inventory' = MergedInventory(w)
    /\ orders' = [j \in DOMAIN orders \ {tx[w].id} |-> orders[j]]
    /\ ledger' = SelectSeq(ledger \o tx[w].wLedger, LAMBDA r : r.ref # tx[w].id)
    /\ history' = SelectSeq(history, LAMBDA h : h.order # tx[w].id)
    /\ tx' = [tx EXCEPT ![w] = Finished(tx[w], "ok")]
    /\ lastCreate' = NoCreate
    /\ UNCHANGED <<nextId, requests, menu_items>>

\* Commit; order_items and order_status_history rows go with the order (ON DELETE CASCADE)
DeleteCommit(w) ==
    /\ tx[w].op = "delete" /\ tx[w].pc = "commit"
    /\ inventory' = MergedInventory(w)
    /\ orders' = [j \in DOMAIN orders \ {tx[w].id} |-> orders[j]]
    /\ ledger' = ledger \o tx[w].wLedger
    /\ history' = SelectSeq(history, LAMBDA h : h.order # tx[w].id)
    /\ tx' = [tx EXCEPT ![w] = Finished(tx[w], "ok")]
    /\ lastCreate' = NoCreate
    /\ UNCHANGED <<nextId, requests, menu_items>>

\* ----------------------------------------------------------- CloseOrder
\* orderService.CloseOrder, BeginTx
StartClose(w) ==
    /\ Idle(w)
    /\ requests < MaxRequests
    /\ requests' = requests + 1
    /\ \E id \in OrderIdInputs :
          LET t == [IdleTx EXCEPT !.op = "close", !.id = id]
          IN tx' = [tx EXCEPT ![w] = IF id <= 0 THEN [t EXCEPT !.out = "ErrInvalidOrderID"] ELSE [t EXCEPT !.pc = "select"]]
    /\ UNCHANGED <<inventory, orders, ledger, history, nextId, lastCreate, menu_items>>

\* a CloseOrder that locks the row and goes on whatever the status is
CloseSelectAnyStatus(w) ==
    /\ tx[w].op = "close" /\ tx[w].pc = "select"
    /\ IF tx[w].id \notin DOMAIN orders THEN Rollback(w, "not found")
       ELSE /\ ~OrderLockedByOther(w, tx[w].id)
            /\ tx' = [tx EXCEPT ![w].ordLock = {tx[w].id}, ![w].pc = "commit"]
    /\ UNCHANGED <<inventory, orders, ledger, history, nextId, requests, lastCreate, menu_items>>

\* a SELECT status without FOR UPDATE: it does not wait for a concurrent writer
CloseSelectUnlocked(w) ==
    /\ tx[w].op = "close" /\ tx[w].pc = "select"
    /\ IF tx[w].id \notin DOMAIN orders THEN Rollback(w, "not found")
       ELSE IF orders[tx[w].id].status \in {"cancelled", "delivered"}
            THEN Rollback(w, "not closable")
            ELSE tx' = [tx EXCEPT ![w].ordLock = {tx[w].id}, ![w].pc = "commit"]
    /\ UNCHANGED <<inventory, orders, ledger, history, nextId, requests, lastCreate, menu_items>>

\* 1. SELECT status FROM orders WHERE id FOR UPDATE, and the closable test
CloseSelect(w) ==
    /\ tx[w].op = "close" /\ tx[w].pc = "select"
    /\ IF tx[w].id \notin DOMAIN orders THEN Rollback(w, "not found")
       ELSE /\ ~OrderLockedByOther(w, tx[w].id)
            /\ IF orders[tx[w].id].status \in {"cancelled", "delivered"}
               THEN Rollback(w, "not closable")
               ELSE tx' = [tx EXCEPT ![w].ordLock = {tx[w].id}, ![w].pc = "commit"]
    /\ UNCHANGED <<inventory, orders, ledger, history, nextId, requests, lastCreate, menu_items>>

\* a CloseOrder that also books a restock of the order's items in the ledger
CloseCommitRestocking(w) ==
    /\ tx[w].op = "close" /\ tx[w].pc = "commit"
    /\ orders' = [orders EXCEPT ![tx[w].id].status = "delivered"]
    /\ history' = Append(history, [order |-> tx[w].id, status |-> "delivered"])
    /\ ledger' = ledger \o OrderRows(orders[tx[w].id].items, 1, "order_deletion", tx[w].id)
    /\ tx' = [tx EXCEPT ![w] = Finished(tx[w], "ok")]
    /\ lastCreate' = NoCreate
    /\ UNCHANGED <<inventory, nextId, requests, menu_items>>

\* 2. UPDATE orders SET status = 'delivered', 3. INSERT INTO order_status_history, Commit
CloseCommit(w) ==
    /\ tx[w].op = "close" /\ tx[w].pc = "commit"
    /\ orders' = [orders EXCEPT ![tx[w].id].status = "delivered"]
    /\ history' = Append(history, [order |-> tx[w].id, status |-> "delivered"])
    /\ tx' = [tx EXCEPT ![w] = Finished(tx[w], "ok")]
    /\ lastCreate' = NoCreate
    /\ UNCHANGED <<inventory, ledger, nextId, requests, menu_items>>

\* --------------------------------------------------- ProcessBatchOrders
\* if len(orders) == 0
EmptyBatchNever(cands) == FALSE

EmptyBatch(cands) == Len(cands) = 0

\* orderService.ProcessBatchOrders: the error of the first candidate that has no items
\* or a client total_price <= 0, "ok" if there is none
ValidateBatch(cands) ==
    IF EmptyBatch(cands) THEN "ErrEmptyBatch"
    ELSE LET bad == {k \in 1..Len(cands) : Len(cands[k].items) = 0 \/ cands[k].total <= 0}
         IN IF bad = {} THEN "ok"
            ELSE LET k == CHOOSE j \in bad : \A l \in bad : j <= l
                 IN IF Len(cands[k].items) = 0 THEN "ErrEmptyOrder" ELSE "ErrInvalidTotalPrice"

Abs(x) == IF x >= 0 THEN x ELSE -x

\* a usage map that keeps the last row's value instead of adding it up
RECURSIVE accumulateUsageLast(_, _, _)
accumulateUsageLast(rows, id, used) ==
    IF rows = << >> THEN used
    ELSE LET r == Head(rows)
         IN accumulateUsageLast(Tail(rows), id, IF r.ref = id /\ r.kind = "order_usage" THEN (r.ing :> Abs(r.delta)) @@ used ELSE used)

\* actualInventoryUsed[ingredientID] += used, over the rows of
\* SELECT ingredient_id, ABS(delta) ... WHERE reference_id = $1 AND transaction_type = 'order_usage'
RECURSIVE accumulateUsage(_, _, _)
accumulateUsage(rows, id, used) ==
    IF rows = << >> THEN used
    ELSE LET r == Head(rows)
         IN accumulateUsage(Tail(rows), id, IF r.ref = id /\ r.kind = "order_usage" THEN (r.ing :> ((IF r.ing \in DOMAIN used THEN used[r.ing] ELSE 0) + Abs(r.delta))) @@ used ELSE used)

\* the handler decodes the batch; orderService.ProcessBatchOrders validates it
StartBatch(w) ==
    /\ Idle(w)
    /\ requests < MaxRequests
    /\ \E cands \in BatchesUpTo(MaxRequests - requests) :
          /\ requests' = requests + (IF Len(cands) = 0 THEN 1 ELSE Len(cands))
          /\ LET b == [NoBatch EXCEPT !.cands = cands]
             IN tx' = [tx EXCEPT ![w] = IF ValidateBatch(cands) # "ok"
                                        THEN [IdleTx EXCEPT !.op = "batch", !.out = ValidateBatch(cands), !.batch = b]
                                        ELSE [IdleTx EXCEPT !.op = "batch", !.pc = "begin", !.batch = b]]
    /\ UNCHANGED <<inventory, orders, ledger, history, nextId, lastCreate, menu_items>>

\* BatchProcessOrders: the length test and the empty response
BatchBegin(w) ==
    /\ tx[w].op = "batch" /\ tx[w].pc = "begin"
    /\ tx' = [tx EXCEPT ![w] = IF EmptyBatch(tx[w].batch.cands)
                               THEN [IdleTx EXCEPT !.op = "batch", !.out = "ErrEmptyBatch", !.batch = tx[w].batch]
                               ELSE [tx[w] EXCEPT !.pc = "total", !.batch.on = TRUE, !.batch.k = 1, !.batch.start = inventory]]
    /\ UNCHANGED <<inventory, orders, ledger, history, nextId, requests, lastCreate, menu_items>>

\* the response of a batch that returns an error: BatchOrderResponse{}
FailedBatch(b) == [NoBatch EXCEPT !.cands = b.cands, !.k = b.k, !.cancelled = b.cancelled, !.start = b.start, !.stockAt = b.stockAt]

\* one candidate: calculateOrderTotal (an error returns from the whole call), the
\* "empty order items" rejection, or the call of r.CreateOrder
BatchTotal(w) ==
    /\ tx[w].op = "batch" /\ tx[w].pc = "total"
    /\ tx[w].batch.k <= Len(tx[w].batch.cands)
    /\ LET b == tx[w].batch
           order == b.cands[b.k]
           total == calculateOrderTotal(order.items)
       IN tx' = [tx EXCEPT ![w] =
                   IF (b.cancelled /\ Len(order.items) > 0) \/ ~PricesResolve(order.items)
                   THEN [IdleTx EXCEPT !.op = "batch", !.out = "error", !.batch = FailedBatch(b)]
                   ELSE IF Len(order.items) = 0
                   THEN [tx[w] EXCEPT !.batch.processed = Append(b.processed, [status |-> "rejected", id |-> 0, total |-> total, reason |-> "empty order items"]),
                                      !.batch.rejected = b.rejected + 1,
                                      !.batch.k = b.k + 1,
                                      !.batch.stockAt = Append(b.stockAt, inventory)]
                   ELSE [tx[w] EXCEPT !.op = "create", !.pc = "check", !.out = "none", !.id = 0, !.items = order.items, !.i = 1,
                                      !.batch.stockAt = Append(b.stockAt, inventory)]]
    /\ UNCHANGED <<inventory, orders, ledger, history, nextId, requests, lastCreate, menu_items>>

\* r.CreateOrder has returned: the candidate is rejected with the error, or accepted,
\* counted into the revenue, and its usage read back from inventory_transactions
BatchRecord(w) ==
    /\ tx[w].batch.on
    /\ tx[w].op = "create" /\ tx[w].pc = "done"
    /\ LET b == tx[w].batch
           total == calculateOrderTotal(b.cands[b.k].items)
       IN tx' = [tx EXCEPT ![w] =
                   IF tx[w].out = "ok"
                   THEN [IdleTx EXCEPT !.op = "batch", !.pc = "total",
                                       !.batch = [b EXCEPT !.processed = Append(b.processed, [status |-> "accepted", id |-> tx[w].id, total |-> total, reason |-> ""]),
                                                           !.accepted = b.accepted + 1,
                                                           !.revenue = b.revenue + total,
                                                           !.actualInventoryUsed = IF b.cancelled THEN b.actualInventoryUsed ELSE accumulateUsage(ledger, tx[w].id, b.actualInventoryUsed),
                                                           !.k = b.k + 1]]
                   ELSE [IdleTx EXCEPT !.op = "batch", !.pc = "total",
                                       !.batch = [b EXCEPT !.processed = Append(b.processed, [status |-> "rejected", id |-> 0, total |-> total, reason |-> tx[w].out]),
                                                           !.rejected = b.rejected + 1,
                                                           !.k = b.k + 1]]]
    /\ UNCHANGED <<inventory, orders, ledger, history, nextId, requests, lastCreate, menu_items>>

\* after the loop: the inventory report for the ingredients actually used, TotalOrders
BatchFinish(w) ==
    /\ tx[w].op = "batch" /\ tx[w].pc = "total"
    /\ tx[w].batch.k > Len(tx[w].batch.cands)
    /\ LET b == tx[w].batch
       IN tx' = [tx EXCEPT ![w] = [IdleTx EXCEPT !.op = "batch", !.out = "ok",
                   !.batch = [b EXCEPT !.on = FALSE,
                                       !.totalOrders = Len(b.cands),
                                       !.inventoryUsed = IF b.cancelled THEN << >>
                                                         ELSE [g \in DOMAIN b.actualInventoryUsed |-> [used |-> b.actualInventoryUsed[g], remaining |-> inventory[g]]]]]]
    /\ UNCHANGED <<inventory, orders, ledger, history, nextId, requests, lastCreate, menu_items>>

\* the request context of a running batch is cancelled: an open CreateOrder transaction
\* is rolled back, and every later statement on the context fails
BatchCancel(w) ==
    /\ tx[w].batch.on /\ ~tx[w].batch.cancelled
    /\ tx' = [tx EXCEPT ![w] = IF tx[w].op = "create" /\ tx[w].pc # "done"
                               THEN [Finished(tx[w], "cancelled") EXCEPT !.batch.cancelled = TRUE]
                               ELSE [tx[w] EXCEPT !.batch.cancelled = TRUE]]
    /\ UNCHANGED <<inventory, orders, ledger, history, nextId, requests, lastCreate, menu_items>>

\* the handler writes the response; the worker is free for the next request
Return(w) ==
    /\ tx[w].op # "none" /\ tx[w].pc = "done"
    /\ ~tx[w].batch.on
    /\ tx' = [tx EXCEPT ![w] = IdleTx]
    /\ UNCHANGED <<inventory, orders, ledger, history, nextId, requests, lastCreate, menu_items>>

\* one step of worker w serving requests drawn from Orders and Statuses
Step(w, Orders, Statuses) ==
    \/ StartCreate(w, Orders, {""})
    \/ CreateCheck(w)
    \/ CreateInsert(w)
    \/ CreateDeduct(w)
    \/ CreateCommit(w)
    \/ StartUpdate(w, Orders, Statuses)
    \/ UpdateRead(w)
    \/ UpdateVerify(w)
    \/ UpdateApply(w)
    \/ UpdateMeta(w)
    \/ UpdateItems(w)
    \/ UpdateCommit(w)
    \/ StartDelete(w)
    \/ DeleteRead(w)
    \/ DeleteRestore(w)
    \/ DeleteItems(w)
    \/ DeleteOrderRow(w)
    \/ DeleteCommit(w)
    \/ StartClose(w)
    \/ CloseSelect(w)
    \/ CloseCommit(w)
    \/ Abort(w)
    \/ Return(w)

\* requests served one after the other
Next == Step(1, OrderInputs, StatusInputs)

Spec == Init /\ [][Next]_vars

\* two requests in flight at a time
NextConcurrent == \E w \in Workers : Step(w, ConcurrentOrderInputs, ConcurrentStatusInputs) \/ DeadlockVictim(w)

SpecConcurrent == Init /\ [][NextConcurrent]_vars

\* batches served one after the other, each candidate through CreateOrder
NextBatch ==
    \/ StartBatch(1)
    \/ BatchBegin(1)
    \/ BatchTotal(1)
    \/ CreateCheck(1)
    \/ CreateInsert(1)
    \/ CreateDeduct(1)
    \/ CreateCommit(1)
    \/ BatchRecord(1)
    \/ BatchFinish(1)
    \/ BatchCancel(1)
    \/ Return(1)

\* one worker serving creates and updates while the menu is edited
NextPricing ==
    \/ UpdateMenuItem
    \/ StartCreate(1, PricingOrderInputs, CreateStatusInputs)
    \/ CreateCheck(1)
    \/ CreateInsert(1)
    \/ CreateDeduct(1)
    \/ CreateCommit(1)
    \/ StartUpdate(1, PricingOrderInputs, PricingStatusInputs)
    \/ UpdateRead(1)
    \/ UpdateVerify(1)
    \/ UpdateApply(1)
    \/ UpdateMeta(1)
    \/ UpdateItems(1)
    \/ UpdateCommit(1)
    \/ Abort(1)
    \/ Return(1)

SpecPricing == Init /\ [][NextPricing]_vars

SpecBatch == Init /\ [][NextBatch]_vars

\* ------------------------------------------------------------ properties
\* what an item list requires of ingredient g: the sum over its lines of the recipe
\* quantity times the line's quantity, as an exact decimal
RECURSIVE Requirement(_, _)
Requirement(items, g) == IF items = << >> THEN 0 ELSE (IF Head(items).menu \in DOMAIN Recipe /\ g \in DOMAIN Recipe[Head(items).menu] THEN Recipe[Head(items).menu][g] * Head(items).qty ELSE 0) + Requirement(Tail(items), g)

\* the sum of the deltas of the rows of `rows` for ingredient g with the given kind and reference
RECURSIVE DeltaSum(_, _, _, _)
DeltaSum(rows, g, kind, ref) == IF rows = << >> THEN 0 ELSE (IF Head(rows).ing = g /\ Head(rows).kind = kind /\ Head(rows).ref = ref THEN Head(rows).delta ELSE 0) + DeltaSum(Tail(rows), g, kind, ref)

\* the rows a step appended to the ledger
Appended == SubSeq(ledger', Len(ledger) + 1, Len(ledger'))

JustCommitted(w, op) == tx[w].op = op /\ tx[w].pc = "done" /\ tx[w].out = "ok"

Terminal == {"delivered", "cancelled"}

\* C1: no oversell -- every ingredient's quantity is >= 0 in every committed state,
\* also for recipes of several ingredients and for orders whose lines share an ingredient
C1_NoOversell == \A g \in Ingredients : inventory[g] >= 0

\* C2: two CreateOrder calls that run at the same time and compete for an ingredient
\* that suffices for one of them serialize: they never both commit into negative stock
C2_ScarceCreatesSerialize ==
    \A g \in Ingredients :
       ~ /\ \A w \in Workers : JustCommitted(w, "create") /\ tx[w].id \in DOMAIN orders /\ Requirement(orders[tx[w].id].items, g) > 0
         /\ inventory[g] < 0

\* C3: a CreateOrder commits only if, for every ingredient, the total required over all
\* its lines and recipe rows is within the current stock
C3_CreateChecksTotalRequirement ==
    [][\A w \in Workers : CreateCommit(w) => \A g \in Ingredients : Requirement(tx[w].items, g) <= inventory[g]]_vars

\* C4: a successful CreateOrder persists the order with its items, lowers every
\* ingredient by exactly the order's requirement (changing no other ingredient), and
\* appends only order_usage rows of the new order whose deltas sum to minus the requirement
C4_CreateEffect ==
    [][\A w \in Workers : CreateCommit(w) =>
          /\ tx[w].id \notin DOMAIN orders
          /\ DOMAIN orders' = DOMAIN orders \cup {tx[w].id}
          /\ \A j \in DOMAIN orders : orders'[j] = orders[j]
          /\ orders'[tx[w].id].items = tx[w].items
          /\ \A g \in Ingredients :
                /\ inventory'[g] = inventory[g] - Requirement(tx[w].items, g)
                /\ DeltaSum(Appended, g, "order_usage", tx[w].id) = -Requirement(tx[w].items, g)
          /\ ledger' = ledger \o Appended
          /\ \A k \in 1..Len(Appended) : Appended[k].kind = "order_usage" /\ Appended[k].ref = tx[w].id]_vars

\* C4 witness: a two-line order has just been committed and is in the orders table
C4_Witness == \E w \in Workers : JustCommitted(w, "create") /\ tx[w].id \in DOMAIN orders /\ Len(orders[tx[w].id].items) = 2 /\ inventory[Beans] = 0
\* C5: CreateOrder followed by DeleteOrder of that order, with no commit in between,
\* leaves every ingredient's quantity as it was before the CreateOrder
C5_CreateDeleteRoundTrip ==
    [][\A w \in Workers : (DeleteCommit(w) /\ lastCreate.id # 0 /\ lastCreate.id = tx[w].id) => inventory' = lastCreate.stock]_vars

\* C5 witness: the Latte order took all the milk, its DeleteOrder gave the milk back,
\* and a second Latte order has been created after that
C5_Witness ==
    /\ 1 \notin DOMAIN orders /\ 2 \in DOMAIN orders
    /\ DeltaSum(ledger, Milk, "order_usage", 1) = -InitialStock[Milk]
    /\ DeltaSum(ledger, Milk, "order_deletion", 1) = InitialStock[Milk]
    /\ DeltaSum(ledger, Milk, "order_usage", 2) = -InitialStock[Milk]
    /\ inventory[Milk] = 0
    /\ \E w \in Workers : JustCommitted(w, "create") /\ tx[w].id = 2

\* C6: ledger reconciliation -- for every existing order and every ingredient the
\* order_usage rows of the order sum to minus the requirement of its current items
C6_LedgerReconciles ==
    \A id \in DOMAIN orders : \A g \in Ingredients : DeltaSum(ledger, g, "order_usage", id) = -Requirement(orders[id].items, g)

\* C7: once an order has been deleted, its order_deletion rows and its order_usage
\* rows sum to zero for every ingredient
C7_RestockCancelsUsage ==
    \A id \in 1..(nextId - 1) : id \notin DOMAIN orders =>
       \A g \in Ingredients : DeltaSum(ledger, g, "order_deletion", id) + DeltaSum(ledger, g, "order_usage", id) = 0

C9_UpdateRejectedOnTerminal ==
    [][\A w \in Workers : UpdateCommit(w) => orders[tx[w].id].status \notin Terminal]_vars

Rank(st) == CASE st = "pending" -> 1 [] st = "accepted" -> 2 [] st = "preparing" -> 3 [] st = "ready" -> 4 [] st = "delivered" -> 5 [] OTHER -> 6

\* C10: an order's status never leaves delivered or cancelled and never moves
\* backwards: every change goes forward along pending, accepted, preparing, ready,
\* delivered, or to cancelled from a status that is not terminal
C10_StatusMovesLegally ==
    [][\A id \in DOMAIN orders \cap DOMAIN orders' :
          \/ orders'[id].status = orders[id].status
          \/ /\ orders[id].status \notin Terminal
             /\ orders'[id].status = "cancelled" \/ Rank(orders'[id].status) > Rank(orders[id].status)]_vars
\* the status-history rows of one order
HistoryOf(id) == SelectSeq(history, LAMBDA r : r.order = id)

\* C11: CloseOrder on a cancelled or delivered order fails and leaves the orders and the
\* status history unchanged; on an existing order in any other status it goes on to
\* commit, sets the status to delivered and appends exactly one delivered history row
C11_CloseOutcome ==
    [][\A w \in Workers :
          /\ (CloseSelect(w) /\ tx[w].id \in DOMAIN orders) =>
                IF orders[tx[w].id].status \in {"cancelled", "delivered"}
                THEN tx'[w].pc = "done" /\ tx'[w].out = "not closable" /\ orders' = orders /\ history' = history
                ELSE tx'[w].pc = "commit" /\ orders' = orders /\ history' = history
          /\ CloseCommit(w) =>
                /\ orders[tx[w].id].status \in {"pending", "accepted", "preparing", "ready"}
                /\ orders'[tx[w].id].status = "delivered"
                /\ history' = Append(history, [order |-> tx[w].id, status |-> "delivered"])
                /\ tx'[w].out = "ok"]_vars

\* C11 witness: an order was closed (one delivered history row) and a second CloseOrder
\* of it has just been refused
C11_Witness ==
    \E w \in Workers : /\ tx[w].op = "close" /\ tx[w].out = "not closable"
                       /\ tx[w].id \in DOMAIN orders /\ orders[tx[w].id].status = "delivered"
                       /\ HistoryOf(tx[w].id) = <<[order |-> tx[w].id, status |-> "delivered"]>>

\* C12: no step of a CloseOrder, successful or not, changes an ingredient quantity, the
\* ledger, the set of orders, or any order's items or total price
C12_CloseFrame ==
    [][\A w \in Workers : ((tx[w].op = "close" \/ tx'[w].op = "close") /\ tx'[w] # tx[w]) =>
          /\ inventory' = inventory
          /\ ledger' = ledger
          /\ DOMAIN orders' = DOMAIN orders
          /\ \A id \in DOMAIN orders : /\ orders'[id].items = orders[id].items
                                       /\ orders'[id].total = orders[id].total
                                       /\ (id # tx[w].id => orders'[id] = orders[id])]_vars

\* C12 witness: a CloseOrder has committed on an order whose items had drawn stock
C12_Witness ==
    \E w \in Workers : /\ JustCommitted(w, "close") /\ tx[w].id \in DOMAIN orders
                       /\ orders[tx[w].id].status = "delivered"
                       /\ inventory[Beans] < InitialStock[Beans]
                       /\ DeltaSum(ledger, Beans, "order_usage", tx[w].id) < 0

\* C13: a successful UpdateOrder changes every ingredient's quantity by exactly minus
\* (requirement of the replacement items - requirement of the persisted items), both
\* exact decimal products, and leaves the order with exactly the replacement items
C13_UpdateExactDelta ==
    [][\A w \in Workers : UpdateCommit(w) =>
          /\ \A g \in Ingredients : inventory'[g] = inventory[g] - (Requirement(tx[w].items, g) - Requirement(orders[tx[w].id].items, g))
          /\ orders'[tx[w].id].items = tx[w].items]_vars
\* ---- batches
BatchDone(w) == tx[w].op = "batch" /\ tx[w].pc = "done"

\* the candidates whose exact requirement exceeded the stock when their turn came
ShortCandidates(b) == {k \in 1..Len(b.stockAt) : \E g \in Ingredients : Requirement(b.cands[k].items, g) > b.stockAt[k][g]}

\* the requirement for g of the first k candidates that were accepted
RECURSIVE AcceptedRequirement(_, _, _)
AcceptedRequirement(b, g, k) == IF k = 0 THEN 0 ELSE (IF b.processed[k].status = "accepted" THEN Requirement(b.cands[k].items, g) ELSE 0) + AcceptedRequirement(b, g, k - 1)

\* the committed total prices of the accepted orders among the first k records
RECURSIVE AcceptedTotal(_, _)
AcceptedTotal(b, k) == IF k = 0 THEN 0 ELSE (IF b.processed[k].status = "accepted" THEN orders[b.processed[k].id].total ELSE 0) + AcceptedTotal(b, k - 1)

\* the sum of the absolute order_usage deltas for g of the ledger rows referencing id
RECURSIVE AbsUsage(_, _, _)
AbsUsage(rows, g, id) == IF rows = << >> THEN 0 ELSE (IF Head(rows).ing = g /\ Head(rows).kind = "order_usage" /\ Head(rows).ref = id THEN (IF Head(rows).delta < 0 THEN -Head(rows).delta ELSE Head(rows).delta) ELSE 0) + AbsUsage(Tail(rows), g, id)

RECURSIVE AcceptedUsage(_, _, _)
AcceptedUsage(b, g, k) == IF k = 0 THEN 0 ELSE (IF b.processed[k].status = "accepted" THEN AbsUsage(ledger, g, b.processed[k].id) ELSE 0) + AcceptedUsage(b, g, k - 1)

\* C14: batch isolation -- once the loop over the candidates has begun (and the request
\* is not cancelled), a failure on one candidate does not end the call: it returns a
\* result with one record for every candidate
C14_BatchIsolation ==
    \A w \in Workers : (BatchDone(w) /\ tx[w].batch.k >= 1 /\ ~tx[w].batch.cancelled) =>
       /\ tx[w].out = "ok"
       /\ Len(tx[w].batch.processed) = Len(tx[w].batch.cands)

\* C15: a batch never grants the same stock twice -- for every ingredient the total
\* requirement of the accepted orders is at most the stock at the start of the batch,
\* and a candidate whose requirement exceeded the stock at its turn is rejected
C15_BatchNoDoubleGrant ==
    \A w \in Workers : (BatchDone(w) /\ tx[w].out = "ok" /\ ~tx[w].batch.cancelled) =>
       LET b == tx[w].batch
       IN /\ \A g \in Ingredients : AcceptedRequirement(b, g, Len(b.processed)) <= b.start[g]
          /\ \A k \in ShortCandidates(b) : b.processed[k].status = "rejected"

\* C16: every non-empty batch returns one record per input order, in input order, each
\* accepted or rejected, with total_orders = number of input orders = accepted + rejected
C16_BatchOneRecordPerOrder ==
    \A w \in Workers : (BatchDone(w) /\ Len(tx[w].batch.cands) > 0 /\ ~tx[w].batch.cancelled) =>
       LET b == tx[w].batch
       IN /\ tx[w].out = "ok"
          /\ Len(b.processed) = Len(b.cands)
          /\ \A k \in 1..Len(b.cands) : /\ b.processed[k].status \in {"accepted", "rejected"}
                                        /\ b.processed[k].total = calculateOrderTotal(b.cands[k].items)
          /\ b.totalOrders = Len(b.cands)
          /\ b.totalOrders = b.accepted + b.rejected

\* C17: in a batch where exactly one candidate requires more of an ingredient than is
\* in stock at its turn, exactly that candidate is rejected, all others are accepted,
\* and the total revenue is the sum of the committed totals of the accepted orders
C17_BatchOneShort ==
    \A w \in Workers : (BatchDone(w) /\ tx[w].out = "ok" /\ ~tx[w].batch.cancelled /\ Cardinality(ShortCandidates(tx[w].batch)) = 1) =>
       LET b == tx[w].batch
       IN /\ \A k \in 1..Len(b.processed) : (b.processed[k].status = "rejected") <=> (k \in ShortCandidates(b))
          /\ b.revenue = AcceptedTotal(b, Len(b.processed))

\* C18: a candidate with zero items (in a batch whose other candidates are well formed)
\* is marked rejected with reason "empty order items" and the batch does not fail
C18_EmptyCandidateRejected ==
    \A w \in Workers : (BatchDone(w) /\ ~tx[w].batch.cancelled /\ \A j \in 1..Len(tx[w].batch.cands) : tx[w].batch.cands[j].total > 0 /\ PricesResolve(tx[w].batch.cands[j].items)) =>
       LET b == tx[w].batch
       IN \A k \in 1..Len(b.cands) : Len(b.cands[k].items) = 0 =>
             /\ tx[w].out = "ok"
             /\ Len(b.processed) = Len(b.cands)
             /\ b.processed[k].status = "rejected"
             /\ b.processed[k].reason = "empty order items"

\* C19: a batch with zero candidates fails with the empty-batch error in its first
\* step: no order, item, quantity, ledger row or order id is created or changed
C19_EmptyBatchFails ==
    [][\A w \in Workers : (tx[w].op = "none" /\ tx'[w].op = "batch" /\ Len(tx'[w].batch.cands) = 0) =>
          /\ tx'[w].pc = "done"
          /\ tx'[w].out = "ErrEmptyBatch"
          /\ tx'[w].batch.processed = << >>
          /\ committed' = committed
          /\ nextId' = nextId]_vars

\* C19 witness: an empty batch was refused when orders of an earlier batch existed
C19_Witness ==
    \E w \in Workers : /\ BatchDone(w) /\ Len(tx[w].batch.cands) = 0 /\ tx[w].out = "ErrEmptyBatch"
                       /\ orders # << >> /\ ledger # << >>

\* C20: the summary's usage of every ingredient is the sum of the absolute order_usage
\* deltas of the ledger rows of the accepted orders, and the reported remaining stock
\* is the ingredient's quantity when the batch completes (request not cancelled)
C20_UsageFromLedger ==
    \A w \in Workers : (BatchDone(w) /\ tx[w].out = "ok" /\ ~tx[w].batch.cancelled) =>
       LET b == tx[w].batch
       IN \A g \in Ingredients :
             /\ (IF g \in DOMAIN b.inventoryUsed THEN b.inventoryUsed[g].used ELSE 0) = AcceptedUsage(b, g, Len(b.processed))
             /\ g \in DOMAIN b.inventoryUsed => b.inventoryUsed[g].remaining = inventory[g]

\* C20 witness: a batch with two accepted orders and one rejected reports 2.000 Beans
\* used and none remaining
C20_Witness ==
    \E w \in Workers : /\ BatchDone(w) /\ tx[w].out = "ok" /\ ~tx[w].batch.cancelled
                       /\ tx[w].batch.accepted = 2 /\ tx[w].batch.rejected = 1
                       /\ Beans \in DOMAIN tx[w].batch.inventoryUsed
                       /\ tx[w].batch.inventoryUsed[Beans] = [used |-> 2000, remaining |-> 0]

\* ---- totals and prices
\* the sum of price * quantity over the items at the given prices (an item without a
\* price counts 0)
RECURSIVE PricedTotal(_, _)
PricedTotal(items, prices) == IF items = << >> THEN 0 ELSE (IF Head(items).menu \in DOMAIN prices THEN prices[Head(items).menu] * Head(items).qty ELSE 0) + PricedTotal(Tail(items), prices)

\* the step in which w's CreateOrder or UpdateOrder computed its total
TotalComputed(w) == tx[w].priced = << >> /\ tx'[w].priced # << >>

\* C21: CreateOrder and UpdateOrder compute the total as the sum of the menu price at
\* that moment times the quantity over the request's items, and the order they commit
\* carries that total and those items, whatever total_price the request carried
C21_TotalRecomputed ==
    [][\A w \in Workers :
          /\ TotalComputed(w) => /\ tx'[w].priced = Prices
                                 /\ tx'[w].total = PricedTotal(tx'[w].items, Prices)
          /\ (CreateCommit(w) \/ UpdateCommit(w)) =>
                /\ orders'[tx[w].id].items = tx[w].items
                /\ orders'[tx[w].id].total = PricedTotal(tx[w].items, tx[w].priced)]_vars

\* C21 witness: the latest commit created an order at a price the menu did not start
\* with, and its total is not the total_price the request carried
C21_Witness ==
    /\ lastCreate.id \in DOMAIN orders
    /\ orders[lastCreate.id].priced[1] # MenuPrice[1]
    /\ orders[lastCreate.id].total # lastCreate.ct
    /\ orders[lastCreate.id].total > 0

\* C22: the price resolution of CreateOrder and UpdateOrder goes through only when
\* every item of the request is a menu item that exists and is active
C22_ResolutionNeedsActiveItem ==
    [][\A w \in Workers : TotalComputed(w) =>
          \A k \in 1..Len(tx'[w].items) : /\ tx'[w].items[k].menu \in DOMAIN menu_items
                                          /\ menu_items[tx'[w].items[k].menu].is_active]_vars

\* C22 witness companion: a request for a menu item that does not exist was refused
C22_UnknownItemRefused ==
    \E w \in Workers : tx[w].op = "update" /\ tx[w].pc = "done" /\ tx[w].out = "error" /\ tx[w].id \in DOMAIN orders

C24_InvalidTotalOnRecomputed ==
    \A w \in Workers : (BatchDone(w) /\ tx[w].out = "ErrInvalidTotalPrice") =>
       \E k \in 1..Len(tx[w].batch.cands) : PricedTotal(tx[w].batch.cands[k].items, Prices) <= 0

\* ---- status history, ledger
\* C25: every order has at least one order_status_history row, and the latest row of
\* an order carries the order's current status
C25_HistoryTracksStatus ==
    \A id \in DOMAIN orders :
       /\ HistoryOf(id) # << >>
       /\ HistoryOf(id)[Len(HistoryOf(id))].status = orders[id].status

\* C26: no step removes or rewrites a row of inventory_transactions: the ledger after
\* a step is the ledger before it with rows appended
C26_LedgerAppendOnly ==
    [][/\ Len(ledger') >= Len(ledger)
       /\ SubSeq(ledger', 1, Len(ledger)) = ledger]_vars

\* C26 witness: an order was deleted and the ledger still holds its order_usage rows
\* next to the order_deletion rows
C26_Witness ==
    \E w \in Workers : /\ JustCommitted(w, "delete") /\ tx[w].id \notin DOMAIN orders
                       /\ \E k \in 1..Len(ledger) : ledger[k].ref = tx[w].id /\ ledger[k].kind = "order_usage"
                       /\ \E k \in 1..Len(ledger) : ledger[k].ref = tx[w].id /\ ledger[k].kind = "order_deletion"

\* C27: the order a CreateOrder commits is new and its status is pending, whatever
\* status the request carried
C27_CreatedPending ==
    [][\A w \in Workers : CreateCommit(w) =>
          /\ tx[w].id \notin DOMAIN orders
          /\ orders'[tx[w].id].status = "pending"]_vars

\* C27 witness: the latest commit created an order from a request that carried the
\* status delivered, and the order is pending
C27_Witness ==
    /\ lastCreate.id \in DOMAIN orders
    /\ lastCreate.status = "delivered"
    /\ orders[lastCreate.id].status = "pending"

C29_RestockingUpdateNotRefused ==
    [][\A w \in Workers :
          (UpdateApply(w) /\ \A g \in Ingredients : Requirement(tx[w].items, g) <= Requirement(tx[w].cur, g)) =>
             tx'[w].pc # "done"]_vars

\* C30: every ledger row has a kind of the enum transaction_type, and an UpdateOrder
\* of an existing order that applies a non-zero delta records it as an order_usage
\* row with the order's id
C30_UpdateRecordsUsage ==
    [][/\ \A k \in 1..Len(ledger') : ledger'[k].kind \in TransactionType
       /\ \A w \in Workers : (UpdateApply(w) /\ tx[w].id \in DOMAIN orders) =>
             /\ tx'[w].wLedger # << >>
             /\ tx'[w].wLedger[Len(tx'[w].wLedger)].kind = "order_usage"
             /\ tx'[w].wLedger[Len(tx'[w].wLedger)].ref = tx[w].id]_vars

\* ---- missing orders, conservation, races
\* C31: while the order of an UpdateOrder, DeleteOrder or CloseOrder does not exist, no
\* step of that request changes the orders, items, quantities, ledger or history,
\* none reaches its Commit, and the request does not end in success
C31_MissingOrderUntouched ==
    [][\A w \in Workers :
          (tx[w].op \in {"update", "delete", "close"} /\ tx[w].pc # "done" /\ tx[w].id \notin DOMAIN orders /\ tx'[w] # tx[w]) =>
             /\ committed' = committed
             /\ tx'[w].pc # "commit"
             /\ tx'[w].pc = "done" => tx'[w].out # "ok"]_vars

\* C31 witness: an UpdateOrder of an order that was created and then deleted found no
\* order row, and the stock is the initial stock
C31_Witness ==
    \E w \in Workers : /\ tx[w].op = "update" /\ tx[w].pc = "done" /\ tx[w].out = "ErrNoRows"
                       /\ tx[w].id \notin DOMAIN orders /\ tx[w].id < nextId
                       /\ inventory = InitialStock /\ history = << >>

\* the sum of the deltas of all rows of `rows` for ingredient g
RECURSIVE LedgerSum(_, _)
LedgerSum(rows, g) == IF rows = << >> THEN 0 ELSE (IF Head(rows).ing = g THEN Head(rows).delta ELSE 0) + LedgerSum(Tail(rows), g)

\* C32: in every committed state the quantity of every ingredient is its initial
\* quantity plus the sum of the deltas of all its ledger rows
C32_StockFollowsLedger ==
    \A g \in Ingredients : inventory[g] = InitialStock[g] + LedgerSum(ledger, g)

\* C32 witness: an order of two units was created and deleted and another order
\* exists; the ledger holds usage and deletion rows and the stock is not the initial one
C32_Witness ==
    /\ inventory[Beans] # InitialStock[Beans]
    /\ orders # << >>
    /\ \E k \in 1..Len(ledger) : ledger[k].kind = "order_deletion" /\ ledger[k].delta = 2 * Scale
    /\ \E k \in 1..Len(ledger) : ledger[k].kind = "order_usage" /\ ledger[k].ref \in DOMAIN orders

\* the requirement for g of the current items of all orders with an id in ids
RECURSIVE OrdersRequirement(_, _)
OrdersRequirement(ids, g) == IF ids = {} THEN 0 ELSE LET id == CHOOSE x \in ids : TRUE IN Requirement(orders[id].items, g) + OrdersRequirement(ids \ {id}, g)

\* C33: in every committed state the quantity of every ingredient plus the requirement
\* of the current items of all existing orders is the ingredient's initial quantity
C33_StockConserved ==
    \A g \in Ingredients : inventory[g] + OrdersRequirement(DOMAIN orders, g) = InitialStock[g]

\* the request of w was cancelled by its client
Cancelled(w) == tx[w].out \in {"cancelled", "cancelled before commit"}

\* C34: when the only requests served are the CreateOrder of an order and an
\* UpdateOrder and a DeleteOrder of it, the DeleteOrder, having read the order's items
\* and not being cancelled, commits and leaves every ingredient at its quantity before
\* the CreateOrder, however its steps interleave with the UpdateOrder's
C34_UpdateDeleteSerial ==
    [][\A d \in Workers :
          (/\ requests = 3
           /\ tx[d].op = "delete" /\ tx[d].cur # << >> /\ tx[d].pc # "done"
           /\ tx'[d].pc = "done" /\ ~Cancelled(d)'
           /\ \E u \in Workers \ {d} : tx[u].op = "update" /\ tx[u].id = tx[d].id /\ ~Cancelled(u)) =>
             /\ tx'[d].out = "ok"
             /\ inventory' = InitialStock]_vars

\* C35: of two DeleteOrder requests for the same order at most one commits; the one
\* that commits after reading the order's items raises every quantity by exactly
\* the requirement of those items and appends the order's only order_deletion rows;
\* the other, unless its client cancels it, ends in ErrNoRows and changes nothing
C35_DeleteRestocksOnce ==
    [][\A d \in Workers : \A e \in Workers \ {d} :
          (tx[d].op = "delete" /\ tx[e].op = "delete" /\ tx[e].id = tx[d].id) =>
             /\ DeleteCommit(d) =>
                   /\ tx[e].out # "ok"
                   /\ tx[d].id \notin DOMAIN orders'
                   /\ tx[d].cur # << >> =>
                         \A g \in Ingredients :
                            /\ inventory'[g] = inventory[g] + Requirement(tx[d].cur, g)
                            /\ DeltaSum(ledger, g, "order_deletion", tx[d].id) = 0
                            /\ DeltaSum(ledger', g, "order_deletion", tx[d].id) = Requirement(tx[d].cur, g)
             /\ (tx[d].pc # "done" /\ tx'[d].pc = "done" /\ tx'[d].out # "ok" /\ ~Cancelled(d)') =>
                   /\ tx'[d].out = "ErrNoRows"
                   /\ committed' = committed]_vars

\* C35 witness: two DeleteOrder requests for order 1 have finished, one committed and
\* the other found no order row; the stock is back at its initial value and the
\* ledger holds one set of order_deletion rows
C35_Witness ==
    /\ requests = 3
    /\ tx[1].op = "delete" /\ tx[2].op = "delete" /\ tx[1].id = 1 /\ tx[2].id = 1
    /\ tx[1].pc = "done" /\ tx[2].pc = "done"
    /\ {tx[1].out, tx[2].out} = {"ok", "ErrNoRows"}
    /\ inventory = InitialStock
    /\ DeltaSum(ledger, Beans, "order_deletion", 1) = 2 * Scale

\* C36: when the only requests served are the CreateOrder of an order and two
\* CloseOrder requests for it, at most one of the two commits; the commit finds the
\* order closable and appends exactly one delivered row to the status history; the
\* other, finishing after that commit and not cancelled, fails as not closable and
\* changes nothing
C36_CloseSerializes ==
    [][\A d \in Workers : \A e \in Workers \ {d} :
          (requests = 3 /\ tx[d].op = "close" /\ tx[e].op = "close" /\ tx[e].id = tx[d].id) =>
             /\ CloseCommit(d) =>
                   /\ tx[e].out # "ok"
                   /\ orders[tx[d].id].status \notin Terminal
                   /\ orders'[tx[d].id].status = "delivered"
                   /\ history' = Append(history, [order |-> tx[d].id, status |-> "delivered"])
             /\ (tx[e].out = "ok" /\ tx[d].pc # "done" /\ tx'[d].pc = "done" /\ ~Cancelled(d)') =>
                   /\ tx'[d].out = "not closable"
                   /\ committed' = committed]_vars

\* C36 witness: two CloseOrder requests for order 1 have finished, one succeeded and
\* the other was refused; the history holds one delivered row for the order
C36_Witness ==
    /\ requests = 3
    /\ tx[1].op = "close" /\ tx[2].op = "close" /\ tx[1].id = 1 /\ tx[2].id = 1
    /\ tx[1].pc = "done" /\ tx[2].pc = "done"
    /\ {tx[1].out, tx[2].out} = {"ok", "not closable"}
    /\ 1 \in DOMAIN orders /\ orders[1].status = "delivered"
    /\ HistoryOf(1) = <<[order |-> 1, status |-> "delivered"]>>

\* C37: an UpdateOrder whose replacement items are the order's current items has a
\* zero delta for every ingredient: it skips the stock check and the inventory
\* writes, never ends as insufficient, and its commit changes no quantity and
\* appends no ledger row
C37_NoOpUpdateFree ==
    [][\A w \in Workers :
          (tx[w].op = "update" /\ tx[w].pc \notin {"read", "done"} /\ tx[w].cur = tx[w].items /\ tx'[w] # tx[w]) =>
             /\ tx[w].deltas = NoDeltas
             /\ tx[w].pc \notin {"verify", "apply"}
             /\ tx[w].wInv = << >> /\ tx[w].wLedger = << >>
             /\ tx'[w].out # "insufficient"
             /\ UpdateCommit(w) => inventory' = inventory /\ ledger' = ledger]_vars

\* C37 witness: an order that took all the milk was created and then updated twice
\* with its own items; the second update has just committed, the milk is still 0 and
\* the ledger holds only the two rows of the create
C37_Witness ==
    \E w \in Workers : /\ JustCommitted(w, "update") /\ tx[w].id = 1
                       /\ requests = 3 /\ nextId = 2
                       /\ 1 \in DOMAIN orders /\ orders[1].items = <<Item(2, 1)>> /\ orders[1].status = "ready"
                       /\ inventory[Milk] = 0 /\ inventory[Beans] = InitialStock[Beans] - Scale
                       /\ Len(ledger) = 2
====
